---- MODULE Spec2Model ----
(***************************************************************************)
(* Model of the Cloud Run service of src/frontend.py: the two POST         *)
(* handlers generate_tests and analyze_code, the storage helpers           *)
(* download_from_gcs and upload_to_gcs, the output bucket and the clock    *)
(* that names the output objects.                                          *)
(*                                                                         *)
(* One request is in flight at a time (the handlers are synchronous and    *)
(* share nothing but the bucket and the clock); requests follow each other *)
(* and the bucket outlives them.  The collaborators whose code is not part *)
(* of the service (code_analyzer.analyze, test_generator.generate and the  *)
(* object store) are modelled by the set of results they can hand back:    *)
(* a value, or an exception.                                               *)
(***************************************************************************)
EXTENDS Integers, Sequences, FiniteSets, TLC

VARIABLES
    pc,               \* position of the handler in flight
    endpoint,         \* "generate" | "analyze": the route of the request in flight
    data,             \* what request.get_json() returns for the request in flight
    source_code,      \* local of the handler
    gcs_path,         \* local of the handler
    language,         \* local of the handler
    test_types,       \* local of the handler
    framework,        \* local of the handler
    analysis_result,  \* local of the handler
    generated_tests,  \* local of the handler
    timestamp,        \* local of the handler
    gcs_url,          \* local of the handler
    responses,        \* the (status, body) pairs the handler returned for this request
    log,              \* the collaborator calls of this request, in order, with arguments and outcome
    steps,            \* the pipeline steps this request has completed, in order
    objects,          \* the output bucket BUCKET_NAME: object name -> content
    now,              \* the wall clock, in ticks of 1/TicksPerSecond s
    delivered,        \* the (gcs_path, generated_tests) pairs of all 200 responses of /generate-tests so far
    served            \* number of requests received so far

locals == <<source_code, gcs_path, language, test_types, framework,
            analysis_result, generated_tests, timestamp, gcs_url>>
vars == <<pc, endpoint, data, locals, responses, log, steps, objects, now,
          delivered, served>>

----------------------------------------------------------------------------
(* Bounds of the model *)

\* requests received in one behaviour
MaxRequests == 2
\* last tick of the clock
MaxClock == 2

\* clock ticks per second: strftime('%Y%m%d_%H%M%S') has a resolution of one second
TicksPerSecond == 2

----------------------------------------------------------------------------
(* Python values *)

\* None, for the locals that hold text
PyNone == "<None>"

\* a local that was not assigned yet (analysis_result, generated_tests)
Unset == [unset |-> TRUE]

IsSet(v) == "unset" \notin DOMAIN v

\* truth value of a text-or-None value: `if x`, `not x`
Truthy(v) == v # PyNone /\ v # ""

BUCKET_NAME == "ai-test-generator-bucket"

----------------------------------------------------------------------------
(* Requests *)

InlineSources == {"", "def f(): pass"}

\* gcs_path values: well formed, no '/' after the bucket, empty bucket, empty
\* key, wrong scheme, no scheme, empty text
GcsPaths == {"gs://b/k", "gs://b", "gs:///k", "gs://b/", "http://b/k", "b/k", ""}

Languages == {"python", "javascript", "java"}

Frameworks == {"pytest", "junit"}

TestTypeLists == {<<"unit">>}

\* texts the object store can hand back for an existing object
BlobTexts == {"", "def g(): pass"}

\* test code the generator can hand back
TestCodes == {"assert f() is None", "assert True"}

Keys == {"source_code", "gcs_path", "language", "test_types", "framework"}

ValuesOf(k) ==
    CASE k = "source_code" -> InlineSources
      [] k = "gcs_path" -> GcsPaths
      [] k = "language" -> Languages
      [] k = "test_types" -> TestTypeLists
      [] k = "framework" -> Frameworks

\* the JSON objects a client can send: any subset of the keys, each with one of its values
JsonObjects ==
    UNION { { [k \in K |-> CASE k = "source_code" -> s
                             [] k = "gcs_path" -> g
                             [] k = "language" -> l
                             [] k = "test_types" -> t
                             [] k = "framework" -> f] :
                s \in ValuesOf("source_code"), g \in ValuesOf("gcs_path"),
                l \in ValuesOf("language"), t \in ValuesOf("test_types"),
                f \in ValuesOf("framework") } : K \in SUBSET Keys }

\* what request.get_json() returns: None (a body of null), or a JSON object
Bodies == {[kind |-> "null", json |-> <<>>]} \cup
          {[kind |-> "object", json |-> j] : j \in JsonObjects}

\* `not data`
Falsy(d) == d.kind = "null" \/ DOMAIN d.json = {}

\* data.get(key, default)
Get(d, key, default) == IF key \in DOMAIN d.json THEN d.json[key] ELSE default

----------------------------------------------------------------------------
(* Text *)

\* s.startswith(prefix)
StartsWith(s, prefix) ==
    Len(s) >= Len(prefix) /\ SubSeq(s, 1, Len(prefix)) = prefix

\* s[n:]
DropPrefix(s, n) == SubSeq(s, n + 1, Len(s))

\* s.split(sep, 1) for a separator of one character
Split1(s, sep) ==
    LET hits == {i \in 1..Len(s) : SubSeq(s, i, i) = sep} IN
    IF hits = {} THEN <<s>>
    ELSE LET i == CHOOSE m \in hits : \A n \in hits : m <= n
         IN <<SubSeq(s, 1, i - 1), SubSeq(s, i + 1, Len(s))>>

TwoDigits(n) ==
    LET digits == "0123456789"
    IN SubSeq(digits, (n \div 10) + 1, (n \div 10) + 1) \o
       SubSeq(digits, (n % 10) + 1, (n % 10) + 1)

\* datetime.now().strftime('%Y%m%d_%H%M%S') at clock tick t: whole seconds only
Strftime(t) == "20260101_0000" \o TwoDigits(t \div TicksPerSecond)

OutputPath(ts) == "generated_tests/" \o ts \o "_tests.py"

----------------------------------------------------------------------------
(* Collaborators: the results they can hand back *)

\* one entry of the log: the call, its arguments, how it ended ("returned",
\* "raised", or for the analyzer "unsuccessful": returned success=false) and
\* what it handed back
Call(op, args, outcome, result) ==
    [op |-> op, args |-> args, outcome |-> outcome, result |-> result]

Returned(value, calls) == [raised |-> FALSE, value |-> value, calls |-> calls]
Raised(exception, calls) == [raised |-> TRUE, exception |-> exception, calls |-> calls]

\* blob.download_as_text() of object blob_name of bucket bucket_name: the
\* object's text, or an exception of the object store (no such object, no
\* access).  No object has an empty bucket name or an empty name.
DownloadAsText(bucket_name, blob_name) ==
    LET args == [bucket |-> bucket_name, blob |-> blob_name] IN
    {Raised("NotFound", <<Call("blob.download_as_text", args, "raised", "")>>)} \cup
    IF bucket_name = "" \/ blob_name = "" THEN {}
    ELSE {Returned(t, <<Call("blob.download_as_text", args, "returned", t)>>) :
              t \in BlobTexts}

\* download_from_gcs(gcs_path): the outcomes of one call
download_from_gcs(path) ==
    IF ~StartsWith(path, "gs://")
    THEN {Raised("ValueError: GCS path must start with gs://", <<>>)}
    ELSE LET path_parts == Split1(DropPrefix(path, 5), "/") IN
         IF Len(path_parts) < 2
         THEN {Raised("IndexError: list index out of range", <<>>)}
         ELSE LET bucket_name == path_parts[1]
                  blob_name == path_parts[2]
              IN \* storage_client.bucket(bucket_name) builds a handle without a
                 \* request; the client library may refuse an empty name
                 (IF bucket_name = ""
                  THEN {Raised("client: invalid bucket name", <<>>)} ELSE {})
                 \cup DownloadAsText(bucket_name, blob_name)

\* code_analyzer.analyze(source_code, language): an AnalysisResult with
\* success true or false, or an exception
Analyze(src, lang) ==
    LET args == [source_code |-> src, language |-> lang]
        failure == [success |-> FALSE, error |-> "cannot parse"]
        success == [success |-> TRUE,
                    analysis |-> [of_source |-> src, of_language |-> lang,
                                  functions |-> <<"f">>, summary |-> "1 function"]]
    IN { Raised("AnalyzerError",
                <<Call("analyze", args, "raised", [exception |-> "AnalyzerError"])>>),
         Returned(failure, <<Call("analyze", args, "unsuccessful", failure)>>),
         Returned(success, <<Call("analyze", args, "returned", success)>>) }

\* test_generator.generate(...): a GeneratedTests, or an exception
Generate(src, analysis, lang, types, fw) ==
    LET args == [source_code |-> src, analysis |-> analysis, language |-> lang,
                 test_types |-> types, framework |-> fw] IN
    {Raised("GenerationError",
            <<Call("generate", args, "raised", [exception |-> "GenerationError"])>>)}
    \cup
    {Returned([test_code |-> c, test_count |-> 1],
              <<Call("generate", args, "returned", [test_code |-> c, test_count |-> 1])>>) :
         c \in TestCodes}

\* upload_to_gcs(content, destination_path) with the bucket holding objs: the
\* address of the written object and the bucket after the write, or an
\* exception of the object store and the bucket as it was
upload_to_gcs(content, destination_path, objs) ==
    LET args == [content |-> content, path |-> destination_path] IN
    { [raised |-> TRUE, exception |-> "StorageError", objects |-> objs,
       calls |-> <<Call("blob.upload_from_string", args, "raised", "")>>],
      [raised |-> FALSE,
       value |-> "gs://" \o BUCKET_NAME \o "/" \o destination_path,
       objects |-> [p \in DOMAIN objs \cup {destination_path} |->
                       IF p = destination_path THEN content ELSE objs[p]],
       calls |-> <<Call("blob.upload_from_string", args, "returned",
                        "gs://" \o BUCKET_NAME \o "/" \o destination_path)>>] }

----------------------------------------------------------------------------
(* Responses *)

Response(status, body) == [status |-> status, body |-> body]

\* InternalServerError with the status left out of the return: Flask sends 200
InternalServerError_NoStatus(e) ==
    Response(200, [error |-> "Internal server error", details |-> e])

\* the except clause of generate_tests
InternalServerError(e) ==
    Response(500, [error |-> "Internal server error", details |-> e])

\* the except clause of analyze_code
AnalyzeCodeError(e) == Response(500, [error |-> e])

\* `return jsonify(...), status`: the handler ends
Return(response) ==
    /\ responses' = Append(responses, response)
    /\ pc' = "done"

----------------------------------------------------------------------------
Init ==
    /\ pc = "idle"
    /\ endpoint = ""
    /\ data = [kind |-> "null", json |-> <<>>]
    /\ source_code = PyNone
    /\ gcs_path = PyNone
    /\ language = PyNone
    /\ test_types = <<>>
    /\ framework = PyNone
    /\ analysis_result = Unset
    /\ generated_tests = Unset
    /\ timestamp = PyNone
    /\ gcs_url = PyNone
    /\ responses = <<>>
    /\ log = <<>>
    /\ steps = <<>>
    /\ objects = <<>>
    /\ now = 0
    /\ delivered = {}
    /\ served = 0

\* a request arrives at one of the two POST routes
Receive ==
    /\ pc = "idle"
    /\ served < MaxRequests
    /\ served' = served + 1
    /\ \E ep \in {"generate", "analyze"}, body \in Bodies :
          /\ endpoint' = ep
          /\ data' = body
          /\ pc' = IF ep = "generate" THEN "gt_validate" ELSE "ac_validate"
    /\ UNCHANGED <<locals, responses, log, steps, objects, now, delivered>>

\* the response has been sent: the handler's frame is gone, the bucket stays
Close ==
    /\ pc = "done"
    /\ pc' = "idle"
    /\ endpoint' = ""
    /\ data' = [kind |-> "null", json |-> <<>>]
    /\ source_code' = PyNone
    /\ gcs_path' = PyNone
    /\ language' = PyNone
    /\ test_types' = <<>>
    /\ framework' = PyNone
    /\ analysis_result' = Unset
    /\ generated_tests' = Unset
    /\ timestamp' = PyNone
    /\ gcs_url' = PyNone
    /\ responses' = <<>>
    /\ log' = <<>>
    /\ steps' = <<>>
    /\ UNCHANGED <<objects, now, delivered, served>>

\* the clock advances
Tick ==
    /\ now < MaxClock
    /\ now' = now + 1
    /\ UNCHANGED <<pc, endpoint, data, locals, responses, log, steps, objects,
                   delivered, served>>

----------------------------------------------------------------------------
(* POST /generate-tests *)

\* NeitherSupplied with the test written `is None`: an empty text passes
NeitherSupplied_IsNone(sc, gp) == sc = PyNone /\ gp = PyNone

\* `if not source_code and not gcs_path`
NeitherSupplied(sc, gp) == ~Truthy(sc) /\ ~Truthy(gp)

\* `if not analysis_result['success']`
AnalysisFailed(result) == ~result.success

\* lines 52-63: read the body, validate it
GT_Validate ==
    /\ pc = "gt_validate"
    /\ IF Falsy(data)
       THEN /\ Return(Response(400, [error |-> "Request body is required"]))
            /\ UNCHANGED <<locals, steps>>
       ELSE LET sc == Get(data, "source_code", PyNone)
                gp == Get(data, "gcs_path", PyNone)
            IN /\ source_code' = sc
               /\ gcs_path' = gp
               /\ UNCHANGED <<language, test_types, framework, analysis_result,
                              generated_tests, timestamp, gcs_url>>
               /\ IF NeitherSupplied(sc, gp)
                  THEN /\ Return(Response(400,
                              [error |-> "Either source_code or gcs_path is required"]))
                       /\ UNCHANGED steps
                  ELSE /\ pc' = "gt_resolve"
                       /\ steps' = Append(steps, "validate")
                       /\ UNCHANGED responses
    /\ UNCHANGED <<endpoint, data, log, objects, now, delivered, served>>

\* GT_Resolve with a failed download swallowed: the handler goes on to the analyzer
GT_Resolve_Swallow ==
    /\ pc = "gt_resolve"
    /\ IF Truthy(gcs_path)
       THEN \E r \in download_from_gcs(gcs_path) :
               /\ log' = log \o r.calls \o
                     <<Call("download_from_gcs", [gcs_path |-> gcs_path],
                            IF r.raised THEN "raised" ELSE "returned",
                            IF r.raised THEN r.exception ELSE r.value)>>
               /\ pc' = "gt_analyze"
               /\ UNCHANGED responses
               /\ IF r.raised
                  THEN UNCHANGED <<source_code, steps>>
                  ELSE /\ source_code' = r.value
                       /\ steps' = Append(steps, "resolve")
       ELSE /\ pc' = "gt_analyze"
            /\ steps' = Append(steps, "resolve")
            /\ UNCHANGED <<source_code, log, responses>>
    /\ UNCHANGED <<endpoint, data, gcs_path, language, test_types, framework,
                   analysis_result, generated_tests, timestamp, gcs_url,
                   objects, now, delivered, served>>

\* lines 65-66: resolve the source text
GT_Resolve ==
    /\ pc = "gt_resolve"
    /\ IF Truthy(gcs_path)
       THEN \E r \in download_from_gcs(gcs_path) :
               /\ log' = log \o r.calls \o
                     <<Call("download_from_gcs", [gcs_path |-> gcs_path],
                            IF r.raised THEN "raised" ELSE "returned",
                            IF r.raised THEN r.exception ELSE r.value)>>
               /\ IF r.raised
                  THEN /\ Return(InternalServerError(r.exception))
                       /\ UNCHANGED <<source_code, steps>>
                  ELSE /\ source_code' = r.value
                       /\ pc' = "gt_analyze"
                       /\ steps' = Append(steps, "resolve")
                       /\ UNCHANGED responses
       ELSE /\ pc' = "gt_analyze"
            /\ steps' = Append(steps, "resolve")
            /\ UNCHANGED <<source_code, log, responses>>
    /\ UNCHANGED <<endpoint, data, gcs_path, language, test_types, framework,
                   analysis_result, generated_tests, timestamp, gcs_url,
                   objects, now, delivered, served>>

\* GT_Analyze analyzing the inline source_code of the body instead of the
\* resolved text
GT_Analyze_Inline ==
    /\ pc = "gt_analyze"
    /\ language' = Get(data, "language", "python")
    /\ test_types' = Get(data, "test_types", <<"unit", "edge", "negative">>)
    /\ framework' = Get(data, "framework", "pytest")
    /\ \E r \in Analyze(Get(data, "source_code", PyNone), language') :
          /\ log' = log \o r.calls
          /\ IF r.raised
             THEN /\ Return(InternalServerError(r.exception))
                  /\ UNCHANGED <<analysis_result, steps>>
             ELSE /\ analysis_result' = r.value
                  /\ IF AnalysisFailed(r.value)
                     THEN /\ Return(Response(400, [error |-> "Code analysis failed",
                                                   details |-> r.value.error]))
                          /\ UNCHANGED steps
                     ELSE /\ pc' = "gt_generate"
                          /\ steps' = Append(steps, "analyze")
                          /\ UNCHANGED responses
    /\ UNCHANGED <<endpoint, data, source_code, gcs_path, generated_tests,
                   timestamp, gcs_url, objects, now, delivered, served>>

\* lines 68-79: read the options, analyze the source
GT_Analyze ==
    /\ pc = "gt_analyze"
    /\ language' = Get(data, "language", "python")
    /\ test_types' = Get(data, "test_types", <<"unit", "edge", "negative">>)
    /\ framework' = Get(data, "framework", "pytest")
    /\ \E r \in Analyze(source_code, language') :
          /\ log' = log \o r.calls
          /\ IF r.raised
             THEN /\ Return(InternalServerError(r.exception))
                  /\ UNCHANGED <<analysis_result, steps>>
             ELSE /\ analysis_result' = r.value
                  /\ IF AnalysisFailed(r.value)
                     THEN /\ Return(Response(400, [error |-> "Code analysis failed",
                                                   details |-> r.value.error]))
                          /\ UNCHANGED steps
                     ELSE /\ pc' = "gt_generate"
                          /\ steps' = Append(steps, "analyze")
                          /\ UNCHANGED responses
    /\ UNCHANGED <<endpoint, data, source_code, gcs_path, generated_tests,
                   timestamp, gcs_url, objects, now, delivered, served>>

\* GT_Generate with the generator's exception swallowed: empty tests go on to
\* be persisted
GT_Generate_Swallow ==
    /\ pc = "gt_generate"
    /\ \E r \in Generate(source_code, analysis_result.analysis, language,
                         test_types, framework) :
          /\ log' = log \o r.calls
          /\ generated_tests' = IF r.raised THEN [test_code |-> "", test_count |-> 0]
                                ELSE r.value
          /\ pc' = "gt_persist"
          /\ steps' = Append(steps, "generate")
          /\ UNCHANGED responses
    /\ UNCHANGED <<endpoint, data, source_code, gcs_path, language, test_types,
                   framework, analysis_result, timestamp, gcs_url, objects, now,
                   delivered, served>>

\* lines 82-88: generate the tests
GT_Generate ==
    /\ pc = "gt_generate"
    /\ \E r \in Generate(source_code, analysis_result.analysis, language,
                         test_types, framework) :
          /\ log' = log \o r.calls
          /\ IF r.raised
             THEN /\ Return(InternalServerError(r.exception))
                  /\ UNCHANGED <<generated_tests, steps>>
             ELSE /\ generated_tests' = r.value
                  /\ pc' = "gt_persist"
                  /\ steps' = Append(steps, "generate")
                  /\ UNCHANGED responses
    /\ UNCHANGED <<endpoint, data, source_code, gcs_path, language, test_types,
                   framework, analysis_result, timestamp, gcs_url, objects, now,
                   delivered, served>>

\* lines 91-93: name the output object after the clock, write it
GT_Persist ==
    /\ pc = "gt_persist"
    /\ timestamp' = Strftime(now)
    /\ \E r \in upload_to_gcs(generated_tests.test_code, OutputPath(timestamp'),
                              objects) :
          /\ log' = log \o r.calls
          /\ objects' = r.objects
          /\ IF r.raised
             THEN /\ Return(InternalServerError(r.exception))
                  /\ UNCHANGED <<gcs_url, steps>>
             ELSE /\ gcs_url' = r.value
                  /\ pc' = "gt_respond"
                  /\ steps' = Append(steps, "persist")
                  /\ UNCHANGED responses
    /\ UNCHANGED <<endpoint, data, source_code, gcs_path, language, test_types,
                   framework, analysis_result, generated_tests, now, delivered,
                   served>>

\* lines 96-110: the 200 response
GT_Respond ==
    /\ pc = "gt_respond"
    /\ Return(Response(200,
          [success |-> TRUE,
           generated_tests |-> generated_tests.test_code,
           gcs_path |-> gcs_url,
           metadata |-> [functions_analyzed |-> Len(analysis_result.analysis.functions),
                         test_cases_generated |-> generated_tests.test_count,
                         test_types |-> test_types,
                         framework |-> framework,
                         timestamp |-> timestamp],
           analysis_summary |-> analysis_result.analysis.summary]))
    /\ steps' = Append(steps, "respond")
    /\ delivered' = delivered \cup
          {[gcs_path |-> gcs_url, generated_tests |-> generated_tests.test_code]}
    /\ UNCHANGED <<endpoint, data, locals, log, objects, now, served>>

----------------------------------------------------------------------------
(* POST /analyze-code *)

\* lines 125-127: read the body; data.get on None raises AttributeError
AC_Validate ==
    /\ pc = "ac_validate"
    /\ IF data.kind = "null"
       THEN /\ Return(AnalyzeCodeError(
                   "AttributeError: 'NoneType' object has no attribute 'get'"))
            /\ UNCHANGED <<locals, steps>>
       ELSE /\ source_code' = Get(data, "source_code", PyNone)
            /\ gcs_path' = Get(data, "gcs_path", PyNone)
            /\ pc' = "ac_resolve"
            /\ steps' = Append(steps, "validate")
            /\ UNCHANGED <<language, test_types, framework, analysis_result,
                           generated_tests, timestamp, gcs_url, responses>>
    /\ UNCHANGED <<endpoint, data, log, objects, now, delivered, served>>

\* lines 129-130: resolve the source text
AC_Resolve ==
    /\ pc = "ac_resolve"
    /\ IF Truthy(gcs_path)
       THEN \E r \in download_from_gcs(gcs_path) :
               /\ log' = log \o r.calls \o
                     <<Call("download_from_gcs", [gcs_path |-> gcs_path],
                            IF r.raised THEN "raised" ELSE "returned",
                            IF r.raised THEN r.exception ELSE r.value)>>
               /\ IF r.raised
                  THEN /\ Return(AnalyzeCodeError(r.exception))
                       /\ UNCHANGED <<source_code, steps>>
                  ELSE /\ source_code' = r.value
                       /\ pc' = "ac_analyze"
                       /\ steps' = Append(steps, "resolve")
                       /\ UNCHANGED responses
       ELSE /\ pc' = "ac_analyze"
            /\ steps' = Append(steps, "resolve")
            /\ UNCHANGED <<source_code, log, responses>>
    /\ UNCHANGED <<endpoint, data, gcs_path, language, test_types, framework,
                   analysis_result, generated_tests, timestamp, gcs_url,
                   objects, now, delivered, served>>

\* lines 132-139: check the source, analyze it, return the result as it is
AC_Analyze ==
    /\ pc = "ac_analyze"
    /\ IF ~Truthy(source_code)
       THEN /\ Return(Response(400, [error |-> "source_code or gcs_path is required"]))
            /\ UNCHANGED <<language, analysis_result, log, steps>>
       ELSE /\ language' = Get(data, "language", "python")
            /\ \E r \in Analyze(source_code, language') :
                  /\ log' = log \o r.calls
                  /\ IF r.raised
                     THEN /\ Return(AnalyzeCodeError(r.exception))
                          /\ UNCHANGED <<analysis_result, steps>>
                     ELSE /\ analysis_result' = r.value
                          /\ Return(Response(200, r.value))
                          /\ steps' = Append(steps, "analyze")
    /\ UNCHANGED <<endpoint, data, source_code, gcs_path, test_types, framework,
                   generated_tests, timestamp, gcs_url, objects, now, delivered,
                   served>>

----------------------------------------------------------------------------
Next ==
    \/ Receive
    \/ Close
    \/ Tick
    \/ GT_Validate
    \/ GT_Resolve
    \/ GT_Analyze
    \/ GT_Generate
    \/ GT_Persist
    \/ GT_Respond
    \/ AC_Validate
    \/ AC_Resolve
    \/ AC_Analyze

Spec == Init /\ [][Next]_vars

----------------------------------------------------------------------------
(* Vocabulary of the properties *)

Done == pc = "done"

\* the response of the request in flight, once it has one
TheResponse == responses[1]

HasError(response) == "error" \in DOMAIN response.body

\* positions in the log of the calls of op
CallsOf(op) == {i \in 1..Len(log) : log[i].op = op}

\* the body of the request in flight, as the handlers read it
BodySourceCode == Get(data, "source_code", PyNone)
BodyGcsPath == Get(data, "gcs_path", PyNone)

Pipeline == <<"validate", "resolve", "analyze", "generate", "persist", "respond">>

IsPrefix(s, t) == Len(s) <= Len(t) /\ s = SubSeq(t, 1, Len(s))

\* the collaborator calls of the pipeline, in the order of its steps
CallOrder == <<"blob.download_as_text", "download_from_gcs", "analyze",
               "generate", "blob.upload_from_string">>

Rank(op) == CHOOSE i \in 1..Len(CallOrder) : CallOrder[i] = op

\* scheme://bucket/key with the scheme gs, a bucket and a key
WellFormedAddress(p) ==
    \E i \in 7..(Len(p) - 1) :
        /\ SubSeq(p, 1, 5) = "gs://"
        /\ SubSeq(p, i, i) = "/"
        /\ \A j \in 6..(i - 1) : SubSeq(p, j, j) # "/"

\* the frameworks of a language (section 4.2 of the specification)
CompatibleFrameworks(lang) ==
    CASE lang = "python" -> {"pytest", "unittest"}
      [] lang = "javascript" -> {"jest"}
      [] lang = "java" -> {"junit"}
      [] OTHER -> {}

\* the object a gs:// address of the output bucket names, or PyNone
ObjectAt(address) ==
    LET parts == Split1(DropPrefix(address, 5), "/") IN
    IF StartsWith(address, "gs://") /\ Len(parts) = 2 /\ parts[1] = BUCKET_NAME
       /\ parts[2] \in DOMAIN objects
    THEN objects[parts[2]] ELSE PyNone

----------------------------------------------------------------------------
----------------------------------------------------------------------------
\* the analyzer has returned success=true and the generator has returned, in
\* that order, in positions of the log before i
SucceededBefore(i) ==
    \E a \in CallsOf("analyze"), g \in CallsOf("generate") :
        /\ a < g /\ g < i
        /\ log[a].outcome = "returned" /\ log[a].result.success
        /\ log[g].outcome = "returned"

C2_State ==
    /\ Cardinality(CallsOf("blob.upload_from_string")) <= 1
    /\ \A i \in CallsOf("blob.upload_from_string") :
          endpoint = "generate" /\ SucceededBefore(i)
    /\ (Done /\ Len(steps) < 4) => CallsOf("blob.upload_from_string") = {}

C2_Step ==
    objects' # objects =>
        /\ pc = "gt_persist"
        /\ CallsOf("blob.upload_from_string") = {}
        /\ SucceededBefore(Len(log) + 1)
        /\ Len(log') = Len(log) + 1
        /\ log'[Len(log')].op = "blob.upload_from_string"

(* C2: in a run of POST /generate-tests the upload is invoked at most once *)
(* and only after the analyzer returned success=true and the generator     *)
(* returned; a request that failed in validation, download, analysis or    *)
(* generation has made no upload, and the bucket changes only in the       *)
(* upload of a request that got that far.                                  *)
C2_UploadOnlyAfterSuccess == [](C2_State) /\ [][C2_Step]_vars

\* an object has been written
C2_Witness ==
    /\ \E i \in CallsOf("blob.upload_from_string") : log[i].outcome = "returned"
    /\ objects # <<>>

----------------------------------------------------------------------------
(* C3: a POST /generate-tests request runs validate, resolve source,       *)
(* analyze, generate, persist, respond in this order, each at most once    *)
(* and each only after the one before it completed; its collaborator calls *)
(* follow the same order; 200 is sent only after all five steps before it. *)
C3_LinearPipeline ==
    endpoint = "generate" =>
       /\ IsPrefix(steps, Pipeline)
       /\ pc = "gt_validate" => steps = <<>>
       /\ pc = "gt_resolve" => steps = SubSeq(Pipeline, 1, 1)
       /\ pc = "gt_analyze" => steps = SubSeq(Pipeline, 1, 2)
       /\ pc = "gt_generate" => steps = SubSeq(Pipeline, 1, 3)
       /\ pc = "gt_persist" => steps = SubSeq(Pipeline, 1, 4)
       /\ pc = "gt_respond" => steps = SubSeq(Pipeline, 1, 5)
       /\ \A i, j \in 1..Len(log) : i < j => Rank(log[i].op) < Rank(log[j].op)
       /\ \A i, j \in 1..Len(log) :
             \* download_from_gcs is logged when it ends, after the read it made
             (i < j /\ log[j].op # "download_from_gcs") =>
                 (log[i].outcome = "returned" /\
                  (log[i].op = "analyze" => log[i].result.success))
       /\ \A i \in 1..Len(log) :
             /\ log[i].op = "analyze" => Len(steps) >= 2
             /\ log[i].op = "generate" => Len(steps) >= 3
             /\ log[i].op = "blob.upload_from_string" => Len(steps) >= 4
       /\ (Done /\ TheResponse.status = 200) =>
             /\ steps = Pipeline
             /\ \A op \in {"analyze", "generate", "blob.upload_from_string"} :
                   \E i \in CallsOf(op) : log[i].outcome = "returned"

\* a request went through the whole pipeline, download included
C3_Witness ==
    /\ Done
    /\ endpoint = "generate"
    /\ TheResponse.status = 200
    /\ CallsOf("blob.download_as_text") # {}

----------------------------------------------------------------------------
FailedCalls == {i \in 1..Len(log) : log[i].outcome # "returned"}

(* C4: a POST /generate-tests request ends with exactly one response; when *)
(* a storage read, the analyzer, the generator or a storage write failed,  *)
(* it has status 400 or 500 and an error field, and after a failure of the *)
(* generator or of a storage read or write the status is 500.              *)
C4_FailuresAreStructured ==
    endpoint = "generate" =>
       /\ Len(responses) = (IF Done THEN 1 ELSE 0)
       /\ Done =>
             /\ FailedCalls # {} =>
                   /\ TheResponse.status \in {400, 500}
                   /\ HasError(TheResponse)
             /\ (\E i \in FailedCalls : log[i].op # "analyze") =>
                   TheResponse.status = 500
             /\ TheResponse.status = 200 => FailedCalls = {}
             /\ TheResponse.status # 200 => HasError(TheResponse)

\* a request whose storage write failed has been answered
C4_Witness ==
    /\ Done
    /\ endpoint = "generate"
    /\ \E i \in FailedCalls : log[i].op = "blob.upload_from_string"
    /\ TheResponse.status = 500

----------------------------------------------------------------------------
(* C5: on both POST routes, when the analyzer returned success=false the   *)
(* response has status 400 and an error field, and a response of status    *)
(* 200 means that the analyzer returned success=true.                      *)
C5_AnalyzerFailureIs400 ==
    Done =>
       /\ (\E i \in CallsOf("analyze") : log[i].outcome = "unsuccessful") =>
             (TheResponse.status = 400 /\ HasError(TheResponse))
       /\ TheResponse.status = 200 =>
             \E i \in CallsOf("analyze") :
                 log[i].outcome = "returned" /\ log[i].result.success

----------------------------------------------------------------------------
\* the request in flight fails validation: no body or an empty one, neither
\* source_code nor gcs_path, or a gcs_path that is not a gs:// address
ValidationFailure ==
    \/ Falsy(data)
    \/ ~Truthy(BodySourceCode) /\ ~Truthy(BodyGcsPath)
    \/ Truthy(BodyGcsPath) /\ ~StartsWith(BodyGcsPath, "gs://")

(* C6: on both POST routes a validation failure is answered with status    *)
(* 400 and an error field, never 500.                                      *)
C6_ValidationFailureIs400 ==
    (Done /\ ValidationFailure) =>
        (TheResponse.status = 400 /\ HasError(TheResponse))

----------------------------------------------------------------------------
(* C7: for a gcs_path that is not of the form gs://bucket/key,             *)
(* download_from_gcs raises and blob.download_as_text is never invoked.    *)
C7_MalformedAddressNeverRead ==
    \A i \in CallsOf("download_from_gcs") :
        ~WellFormedAddress(log[i].args.gcs_path) =>
            /\ log[i].outcome = "raised"
            /\ CallsOf("blob.download_as_text") = {}

----------------------------------------------------------------------------
(* C8: when a POST /generate-tests request omits framework, the framework  *)
(* passed to the generator, and reported in the metadata, is one of the    *)
(* frameworks of the request's language; an omitted language is python and *)
(* an omitted test_types is unit, edge, negative.                          *)
C8_DefaultsFitLanguage ==
    /\ \A i \in CallsOf("generate") :
          /\ "framework" \notin DOMAIN data.json =>
                log[i].args.framework \in CompatibleFrameworks(log[i].args.language)
          /\ "language" \notin DOMAIN data.json => log[i].args.language = "python"
          /\ "test_types" \notin DOMAIN data.json =>
                log[i].args.test_types = <<"unit", "edge", "negative">>
    /\ (Done /\ endpoint = "generate" /\ TheResponse.status = 200
             /\ "framework" \notin DOMAIN data.json) =>
          TheResponse.body.metadata.framework \in CompatibleFrameworks(language)

----------------------------------------------------------------------------
\* text is the resolved source of the request in flight, resolved before
\* position a of the log: the text downloaded from gcs_path when the body
\* has one, the inline source_code otherwise
ResolvedBefore(a, text) ==
    IF Truthy(BodyGcsPath)
    THEN \E d \in CallsOf("download_from_gcs") :
            /\ d < a
            /\ log[d].args.gcs_path = BodyGcsPath
            /\ log[d].outcome = "returned"
            /\ log[d].result = text
    ELSE /\ text = BodySourceCode
         /\ CallsOf("download_from_gcs") = {}

(* C9: when POST /generate-tests calls the generator, the analysis it      *)
(* passes is the one a success=true result of the analyzer carried earlier *)
(* in the same request, for the same source text and language as are      *)
(* passed to the generator, and that text had been resolved (inline, or    *)
(* downloaded from gcs_path) before the analyzer was called.               *)
C9_GenerateGetsAnalysisOfSameSource ==
    \A g \in CallsOf("generate") :
        \E a \in CallsOf("analyze") :
            /\ a < g
            /\ log[a].outcome = "returned"
            /\ log[a].result.success
            /\ log[g].args.analysis = log[a].result.analysis
            /\ log[g].args.source_code = log[a].args.source_code
            /\ log[g].args.language = log[a].args.language
            /\ ResolvedBefore(a, log[a].args.source_code)

\* the generator was called for a source downloaded from gcs_path, in a
\* request that also carried an inline source_code
C9_Witness ==
    /\ CallsOf("generate") # {}
    /\ Truthy(BodyGcsPath)
    /\ Truthy(BodySourceCode)
    /\ source_code # BodySourceCode

----------------------------------------------------------------------------
(* C10: for every POST /generate-tests request answered with 200, the      *)
(* object stored at the gcs_path of its response holds the generated_tests *)
(* of that response, whatever requests came with it or after it.           *)
C10_DeliveredObjectKept ==
    \A d \in delivered : ObjectAt(d.gcs_path) = d.generated_tests

====
